---------------------------- MODULE Spec2Model ----------------------------
(***************************************************************************)
(* Model of gitlab-auto-pr's incremental index (src/src/llm_handler.py):   *)
(* the file_embeddings store, the reconciliation pass _index_files and the *)
(* file selection of _get_relevant_files.                                  *)
(*                                                                         *)
(* A text is a run-length encoded string: a sequence of runs               *)
(* [ch |-> character, n |-> repetitions], adjacent runs holding different  *)
(* characters, so that two texts are equal exactly when their encodings    *)
(* are.  This keeps the 500 character cap of the source at its real value. *)
(* A path is a number of 1..NumPaths; the order of the numbers stands for  *)
(* the lexical order of the relative path strings.                         *)
(***************************************************************************)
EXTENDS Integers, Sequences, FiniteSets, TLC

\* ------------------------------------------------------------------ bounds
\* Number of distinct relative paths the repository clones may hold.
NumPaths == 2
\* Largest max_files (k of the k-NN search) a query is run with.
MaxK == 2
\* Number of passes that may end by an exception.
MaxAborts == 1
\* Number of issues of the project.
NumIssues == 2

\* ------------------------------------------------------- program constants
\* content[:500]: the prefix of a file that is embedded (llm_handler.py:112).
EmbedCap == 500

Paths == 1..NumPaths

\* ------------------------------------------------------------------- texts
Run(c, k) == <<[ch |-> c, n |-> k]>>

\* The file contents of the model: a one-character text and a text one
\* character longer than the cap.
Contents == {Run(1, 1), Run(1, EmbedCap) \o Run(2, 1)}
\* The issue descriptions of the model: a short one and one longer than the cap.
Issues == {Run(1, 1), Run(1, EmbedCap) \o Run(2, 2)}

RECURSIVE TextLen(_)
TextLen(t) == IF t = <<>> THEN 0 ELSE t[1].n + TextLen(Tail(t))

\* Python's t[:k].
RECURSIVE Slice(_, _)
Slice(t, k) ==
    IF t = <<>> \/ k <= 0 THEN <<>>
    ELSE IF t[1].n <= k THEN <<t[1]>> \o Slice(Tail(t), k - t[1].n)
    ELSE Run(t[1].ch, k)

RECURSIVE CountCh(_, _)
CountCh(t, c) ==
    IF t = <<>> THEN 0
    ELSE (IF t[1].ch = c THEN t[1].n ELSE 0) + CountCh(Tail(t), c)

\* hashlib.sha256(content.encode()).hexdigest(): a fixed-width digest of the
\* whole content; the path takes no part in it.
RECURSIVE Digest(_)
Digest(t) ==
    IF t = <<>> THEN 7
    ELSE (Digest(SubSeq(t, 1, Len(t) - 1)) * 31
            + t[Len(t)].ch * 1009 + t[Len(t)].n) % 65521

\* A digest that forgets the length of the content.
GetFileHashWeak(path, content) == content[1].ch

GetFileHash(path, content) == Digest(content)

\* lembed('jinav2', text): the embedding model, a fixed function from a text
\* to a vector (here the character counts of the text).
Embed(text) == <<CountCh(text, 1), CountCh(text, 2)>>

\* vec0's distance between two vectors (squared L2; the ranking is that of L2).
Distance(u, v) == (u[1] - v[1]) * (u[1] - v[1]) + (u[2] - v[2]) * (u[2] - v[2])

\* ------------------------------------------------------------ file system
Absent == [kind |-> "absent", text |-> <<>>]
Unreadable == [kind |-> "unreadable", text |-> <<>>]
File(c) == [kind |-> "file", text |-> c]
FileStates == {Absent, Unreadable} \cup {File(c) : c \in Contents}

NoFiles == [p \in Paths |-> Absent]

\* Path(repo_path).rglob("*") filtered by is_file, excluded and suffix: the
\* files of the clone the loop has still to handle.  A path that is absent
\* stands for a file that is deleted, renamed, excluded or of another suffix.
Pending(files, seen) == {p \in Paths \ seen : files[p].kind # "absent"}

\* The file the loop handles next: rglob's order is taken to be the
\* ascending order of the paths.
NextFile(files, seen) ==
    {p \in Pending(files, seen) : \A q \in Pending(files, seen) : p <= q}


\* ------------------------------------------------------------------ store
\* A row whose hash is taken of the embedded prefix only.
RowHashOfPrefix(path, content) ==
    [path |-> path, content |-> content,
     hash |-> GetFileHash(path, Slice(content, EmbedCap)),
     embedding |-> Embed(Slice(content, EmbedCap))]

\* A row of file_embeddings.  The store is the sequence of its rows in rowid
\* order: id INTEGER PRIMARY KEY is assigned increasing, so an INSERT appends.
Row(path, content) ==
    [path |-> path, content |-> content, hash |-> GetFileHash(path, content),
     embedding |-> Embed(Slice(content, EmbedCap))]

RowsOf(rows, paths) == {i \in 1..Len(rows) : rows[i].path \in paths}
StoredPaths(rows) == {rows[i].path : i \in 1..Len(rows)}

\* A DELETE without its WHERE clause.
DeleteWhereAll(rows, paths) == <<>>

RECURSIVE DeleteWhere(_, _)
\* DELETE FROM file_embeddings WHERE path IN paths: the other rows, in order.
DeleteWhere(rows, paths) ==
    IF rows = <<>> THEN <<>>
    ELSE IF rows[1].path \in paths THEN DeleteWhere(Tail(rows), paths)
    ELSE <<rows[1]>> \o DeleteWhere(Tail(rows), paths)

\* A change detection that never skips a file.
NeedsUpdateAlways(rows, path, content) == TRUE

\* _needs_update: SELECT hash ... WHERE path = ?; fetchone() is the first
\* matching row.
NeedsUpdate(rows, path, content) ==
    LET hits == RowsOf(rows, {path})
    IN  IF hits = {} THEN TRUE
        ELSE rows[CHOOSE i \in hits : \A j \in hits : i <= j].hash
                # GetFileHash(path, content)

\* The set difference taken the wrong way round.
DeletedPathsReversed(existing, processed) == processed \ existing

\* Every stored path taken as deleted.
DeletedPathsAll(existing, processed) == existing

\* deleted_paths = existing_paths - processed_paths
DeletedPaths(existing, processed) == existing \ processed

\* ------------------------------------------------------------------ state
VARIABLES
    fs,              \* the clone of the repository: path -> file state
    db,              \* file_embeddings as the connection self.db sees it
    committed,       \* file_embeddings as last committed
    pc,              \* where _get_relevant_files / _index_files stands
    visited,         \* the paths rglob has yielded in this pass
    processed_paths, \* _index_files' processed_paths
    cur,             \* the path being upserted (0: none)
    updated_files,   \* _index_files' updated_files
    embed_calls,     \* lembed calls made by this pass
    removed,         \* the paths whose row this pass has deleted
    start_db,        \* db when this pass started
    prev,            \* the call before this one: whether its pass committed, and its clone
    last_pass,       \* how the latest pass ended: none, committed, aborted
    aborts,          \* the passes that ended by an exception so far
    error,           \* the exception that ended the latest call (none if none)
    result           \* what the latest _get_relevant_files returned

\* The state of the index and of the call of process_codebase.
ivars == <<fs, db, committed, pc, visited, processed_paths, cur, updated_files,
           embed_calls, removed, start_db, prev, last_pass, aborts, error,
           result>>

\* The polling loop GitlabAutoPR.run and the project's issues.
VARIABLES
    issues,          \* the project's issues on the server: open, labels
    rpc,             \* where run / process_issue stands
    batch,           \* the issues of the latest list still to handle, with their labels as fetched
    last_batch,      \* the ids the latest get_auto_pr_issues returned
    curi,            \* the issue being handled (0: none)
    local,           \* issue.labels of the issue object being handled
    changes,         \* the paths of the changes process_codebase returned
    apply_results,   \* apply_changes' results: path -> status
    hist,            \* per issue: what process_issue and the marking have done
    stop             \* what ended run (none if it runs)

rvars == <<issues, rpc, batch, last_batch, curi, local, changes, apply_results,
           hist,
           stop>>

vars == <<ivars, rvars>>

IssueIds == 1..NumIssues

\* What has happened for an issue: the outcome of apply_changes, the commit,
\* the push, the merge request, the note naming it, the note of the failure.
NoHist ==
    [applied |-> "none", committed |-> FALSE, pushed |-> FALSE, mr |-> FALSE,
     mr_note |-> FALSE, fail_note |-> FALSE]

Empty == [x \in {} |-> {}]

RunInit ==
    /\ issues = [i \in IssueIds |-> [open |-> TRUE, labels |-> {}]]
    /\ rpc = "poll"
    /\ batch = Empty
    /\ last_batch = {}
    /\ curi = 0
    /\ local = {}
    /\ changes = {}
    /\ apply_results = Empty
    /\ hist = [i \in IssueIds |-> NoHist]
    /\ stop = "none"

NoResult ==
    [status |-> "none", file |-> 0, content |-> <<>>, candidates |-> <<>>,
     distances |-> <<>>, embedded |-> <<>>, q |-> <<0, 0>>, k |-> 0]

Init ==
    /\ fs = NoFiles
    /\ db = <<>>
    /\ committed = <<>>
    /\ pc = "idle"
    /\ visited = {}
    /\ processed_paths = {}
    /\ cur = 0
    /\ updated_files = 0
    /\ embed_calls = 0
    /\ removed = {}
    /\ start_db = <<>>
    /\ prev = [ok |-> FALSE, fs |-> NoFiles]
    /\ last_pass = "none"
    /\ aborts = 0
    /\ error = "none"
    /\ result = NoResult
    /\ RunInit

\* -------------------------------------------------------- _index_files
\* process_issue clones the repository into a fresh directory and
\* process_codebase -> _get_relevant_files -> _index_files starts a pass over
\* it, on the connection opened at construction.
StartPass ==
    /\ pc = "idle"
    /\ \E f \in [Paths -> FileStates] : fs' = f
    /\ pc' = "scan"
    /\ visited' = {}
    /\ processed_paths' = {}
    /\ cur' = 0
    /\ updated_files' = 0
    /\ embed_calls' = 0
    /\ removed' = {}
    /\ start_db' = db
    /\ error' = "none"
    /\ result' = NoResult
    /\ UNCHANGED <<aborts, db, committed, prev, last_pass>>
    /\ UNCHANGED rvars

\* processed_paths.add placed before the read.
SkipUnreadableProcessed ==
    /\ pc = "scan"
    /\ \E p \in NextFile(fs, visited) :
        /\ fs[p].kind = "unreadable"
        /\ visited' = visited \cup {p}
        /\ processed_paths' = processed_paths \cup {p}
    /\ UNCHANGED <<aborts, fs, db, committed, pc, cur, updated_files,
                   embed_calls, removed, start_db, prev, last_pass, error, result>>
    /\ UNCHANGED rvars

\* read_text raises UnicodeDecodeError or OSError: except ...: continue.
SkipUnreadable ==
    /\ pc = "scan"
    /\ \E p \in NextFile(fs, visited) :
        /\ fs[p].kind = "unreadable"
        /\ visited' = visited \cup {p}
    /\ UNCHANGED <<aborts, fs, db, committed, pc, processed_paths, cur, updated_files,
                   embed_calls, removed, start_db, prev, last_pass, error, result>>
    /\ UNCHANGED rvars

\* The file is read and its hash is the stored one: continue.
SkipUnchanged ==
    /\ pc = "scan"
    /\ \E p \in NextFile(fs, visited) :
        /\ fs[p].kind = "file"
        /\ ~NeedsUpdate(db, p, fs[p].text)
        /\ visited' = visited \cup {p}
        /\ processed_paths' = processed_paths \cup {p}
    /\ UNCHANGED <<aborts, fs, db, committed, pc, cur, updated_files, embed_calls,
                   removed, start_db, prev, last_pass, error, result>>
    /\ UNCHANGED rvars

\* The file is read and is new or changed: go on to the upsert.
BeginUpsert ==
    /\ pc = "scan"
    /\ \E p \in NextFile(fs, visited) :
        /\ fs[p].kind = "file"
        /\ NeedsUpdate(db, p, fs[p].text)
        /\ visited' = visited \cup {p}
        /\ processed_paths' = processed_paths \cup {p}
        /\ cur' = p
    /\ pc' = "delete"
    /\ UNCHANGED <<aborts, fs, db, committed, updated_files, embed_calls, removed,
                   start_db, prev, last_pass, error, result>>
    /\ UNCHANGED rvars

\* An upsert that leaves the old row in place.
DeleteOldSkipped ==
    /\ pc = "delete"
    /\ pc' = "insert"
    /\ UNCHANGED <<aborts, fs, db, committed, visited, processed_paths, cur,
                   updated_files, embed_calls, removed, start_db, prev,
                   last_pass, error, result>>
    /\ UNCHANGED rvars

\* DELETE FROM file_embeddings WHERE path = ?
DeleteOld ==
    /\ pc = "delete"
    /\ db' = DeleteWhere(db, {cur})
    /\ removed' = removed \cup (StoredPaths(db) \cap {cur})
    /\ pc' = "insert"
    /\ UNCHANGED <<aborts, fs, committed, visited, processed_paths, cur, updated_files,
                   embed_calls, start_db, prev, last_pass, error, result>>
    /\ UNCHANGED rvars

\* INSERT INTO file_embeddings ... VALUES (?, ?, ?, lembed('jinav2', ?))
InsertRow ==
    /\ pc = "insert"
    /\ db' = Append(db, Row(cur, fs[cur].text))
    /\ embed_calls' = embed_calls + 1
    /\ updated_files' = updated_files + 1
    /\ cur' = 0
    /\ pc' = "scan"
    /\ UNCHANGED <<aborts, fs, committed, visited, processed_paths, removed, start_db,
                   prev, last_pass, error, result>>
    /\ UNCHANGED rvars

\* The pass ends by an exception that except (UnicodeDecodeError, OSError)
\* does not catch: the frame and its locals are gone and process_issue's
\* TemporaryDirectory removes the clone; nothing is rolled back and the
\* transaction stays open on self.db.
Abort(e) ==
    /\ aborts < MaxAborts
    /\ aborts' = aborts + 1
    /\ pc' = "idle"
    /\ last_pass' = "aborted"
    /\ error' = e
    /\ visited' = {}
    /\ processed_paths' = {}
    /\ cur' = 0
    /\ updated_files' = 0
    /\ embed_calls' = 0
    /\ removed' = {}
    /\ start_db' = <<>>
    /\ fs' = NoFiles
    /\ prev' = [ok |-> FALSE, fs |-> NoFiles]
    /\ UNCHANGED <<db, committed, result>>
    /\ UNCHANGED rvars

\* lembed fails inside the INSERT: sqlite3.OperationalError.
EmbeddingFails ==
    /\ pc = "insert"
    /\ Abort("EmbeddingFailure")

\* A DELETE or INSERT fails in the store: sqlite3.OperationalError.
StoreWriteFails ==
    /\ pc \in {"delete", "insert", "stale"}
    /\ Abort("StoreWriteFailure")

\* rglob is exhausted: SELECT path FROM file_embeddings.
EndScan ==
    /\ pc = "scan"
    /\ Pending(fs, visited) = {}
    /\ pc' = "stale"
    /\ UNCHANGED <<aborts, fs, db, committed, visited, processed_paths, cur,
                   updated_files, embed_calls, removed, start_db, prev,
                   last_pass, error, result>>
    /\ UNCHANGED rvars

\* if deleted_paths: DELETE FROM file_embeddings WHERE path IN (...)
DeleteStale ==
    /\ pc = "stale"
    /\ LET deleted_paths == DeletedPaths(StoredPaths(db), processed_paths)
       IN  /\ db' = DeleteWhere(db, deleted_paths)
           /\ removed' = removed \cup deleted_paths
    /\ pc' = "commit"
    /\ UNCHANGED <<aborts, fs, committed, visited, processed_paths, cur, updated_files,
                   embed_calls, start_db, prev, last_pass, error, result>>
    /\ UNCHANGED rvars

\* self.db.commit(); return updated_files
Commit ==
    /\ pc = "commit"
    /\ committed' = db
    /\ last_pass' = "committed"
    /\ pc' = "query"
    /\ UNCHANGED <<aborts, fs, db, visited, processed_paths, cur, updated_files,
                   embed_calls, removed, start_db, prev, error, result>>
    /\ UNCHANGED rvars

\* -------------------------------------------------- _get_relevant_files
\* all_files = {row[0]: row[1] for row in cursor.fetchall()}: a later row
\* of a path replaces an earlier one.
AllFiles(rows) ==
    [p \in StoredPaths(rows) |->
        rows[CHOOSE i \in RowsOf(rows, {p}) :
                \A j \in RowsOf(rows, {p}) : j <= i].content]

\* Row i comes before row j in the k-NN answer: nearer first, rows at the
\* same distance in storage order.
Before(rows, q, i, j) ==
    LET di == Distance(rows[i].embedding, q)
        dj == Distance(rows[j].embedding, q)
    IN  di < dj \/ (di = dj /\ i <= j)

RECURSIVE Ranked(_, _, _)
Ranked(rows, idx, q) ==
    IF idx = {} THEN <<>>
    ELSE LET best == CHOOSE i \in idx : \A j \in idx : Before(rows, q, i, j)
         IN  <<rows[best]>> \o Ranked(rows, idx \ {best}, q)

\* A search that forgets its limit.
SearchAll(rows, q, k) == Ranked(rows, 1..Len(rows), q)

\* WHERE f.embedding match lembed('jinav2', ?) AND k = ?
Search(rows, q, k) ==
    LET all == Ranked(rows, 1..Len(rows), q)
    IN  SubSeq(all, 1, IF k < Len(all) THEN k ELSE Len(all))

PathsOf(rows) == [i \in 1..Len(rows) |-> rows[i].path]
DistancesOf(rows, q) == [i \in 1..Len(rows) |-> Distance(rows[i].embedding, q)]

\* The text of the issue handed to lembed by the match query: the whole
\* issue_description.
QueryText(issue) == issue

\* process_codebase: if not files: raise ValueError("No relevant files found
\* ..."), else no error of its own.
NoFilesError(files) == IF DOMAIN files = {} THEN "ValueError" ELSE "none"

\* What _get_relevant_files saw and did: the candidates of the search with
\* their distances, the text embedded for it, the query vector and k.
Outcome(status, path, content, rows, issue, k) ==
    LET q == Embed(QueryText(issue))
        results == Search(rows, q, k)
    IN  [status |-> status, file |-> path, content |-> content,
         candidates |-> PathsOf(results), distances |-> DistancesOf(results, q),
         embedded |-> QueryText(issue), q |-> q, k |-> k]

\* The call returns or raises after a committed pass: the frame of the pass
\* and of the query is gone, and so is the clone.
EndCall ==
    /\ pc' = "idle"
    /\ visited' = {}
    /\ processed_paths' = {}
    /\ updated_files' = 0
    /\ embed_calls' = 0
    /\ removed' = {}
    /\ start_db' = <<>>
    /\ fs' = NoFiles
    /\ prev' = [ok |-> TRUE, fs |-> fs]
    /\ UNCHANGED <<aborts, db, committed, cur, last_pass>>
    /\ UNCHANGED rvars

\* The embedding of the issue description or the call of the selector fails.
QueryFails ==
    /\ pc = "query"
    /\ error' = "QueryFailure"
    /\ result' = [NoResult EXCEPT !.status = "raised"]
    /\ EndCall

\* The selector's answer is a key of all_files: _get_relevant_files returns
\* {answer: content} and process_codebase goes on with it.
ReturnFile ==
    /\ pc = "query"
    /\ \E issue \in Issues, k \in 1..MaxK, most_relevant \in Paths :
        LET all_files == AllFiles(db)
            files == [p \in {most_relevant} |-> all_files[p]]
        IN  /\ most_relevant \in DOMAIN all_files
            /\ result' = Outcome("returned", most_relevant,
                                 files[most_relevant], db, issue, k)
            /\ error' = NoFilesError(files)
    /\ EndCall

\* The selector's answer is no key of all_files: KeyError.
SelectedMissing ==
    /\ pc = "query"
    /\ \E issue \in Issues, k \in 1..MaxK, most_relevant \in Paths :
        LET all_files == AllFiles(db)
        IN  /\ most_relevant \notin DOMAIN all_files
            /\ result' = Outcome("raised", most_relevant, <<>>, db, issue, k)
    /\ error' = "KeyError"
    /\ EndCall

Next ==
    \/ StartPass
    \/ SkipUnreadable
    \/ SkipUnchanged
    \/ BeginUpsert
    \/ DeleteOld
    \/ InsertRow
    \/ EmbeddingFails
    \/ StoreWriteFails
    \/ EndScan
    \/ DeleteStale
    \/ Commit
    \/ QueryFails
    \/ ReturnFile
    \/ SelectedMissing

Spec == Init /\ [][Next]_vars

\* ---------------------------------------------------- GitlabAutoPR.run
\* (run's "try" belongs inside its "for issue in issues": the only reading
\* of lines 140-146.)

\* A check that knows one of the two outcome labels only.
IsProcessedCompleteOnly(labels) == "auto-pr-complete" \in labels

\* IssueHandler._is_processed
IsProcessed(labels) ==
    \E label \in {"auto-pr-complete", "auto-pr-failed"} : label \in labels

\* issues.list(state="opened", labels=["auto-pr"]) filtered by _is_processed.
AutoPrIssues(server) ==
    {i \in IssueIds : /\ server[i].open
                      /\ "auto-pr" \in server[i].labels
                      /\ ~IsProcessed(server[i].labels)}

\* A user puts the label auto-pr on an issue.
LabelIssue ==
    /\ rpc # "stopped"
    /\ \E i \in IssueIds :
        /\ "auto-pr" \notin issues[i].labels
        /\ issues' = [issues EXCEPT ![i].labels = @ \cup {"auto-pr"}]
    /\ UNCHANGED <<rpc, batch, last_batch, curi, local, changes, apply_results, hist, stop>>
    /\ UNCHANGED ivars

\* A user closes an issue.
CloseIssue ==
    /\ rpc # "stopped"
    /\ \E i \in IssueIds :
        /\ issues[i].open
        /\ issues' = [issues EXCEPT ![i].open = FALSE]
    /\ UNCHANGED <<rpc, batch, last_batch, curi, local, changes, apply_results, hist, stop>>
    /\ UNCHANGED ivars

\* issues = self.issue_handler.get_auto_pr_issues()
Poll ==
    /\ rpc = "poll"
    /\ batch' = [i \in AutoPrIssues(issues) |-> issues[i].labels]
    /\ last_batch' = AutoPrIssues(issues)
    /\ rpc' = "loop"
    /\ UNCHANGED <<issues, curi, local, changes, apply_results, hist, stop>>
    /\ UNCHANGED ivars

\* get_auto_pr_issues raises: nothing in run catches it.
PollFails ==
    /\ rpc = "poll"
    /\ rpc' = "stopped"
    /\ stop' = "get_auto_pr_issues"
    /\ UNCHANGED <<issues, batch, last_batch, curi, local, changes, apply_results, hist>>
    /\ UNCHANGED ivars

\* for issue in issues: the next issue of the list; process_issue starts.
NextIssue ==
    /\ rpc = "loop"
    /\ \E i \in DOMAIN batch :
        /\ curi' = i
        /\ local' = batch[i]
        /\ batch' = [j \in DOMAIN batch \ {i} |-> batch[j]]
    /\ changes' = {}
    /\ apply_results' = Empty
    /\ rpc' = "clone"
    /\ UNCHANGED <<issues, last_batch, hist, stop>>
    /\ UNCHANGED ivars

\* The list is exhausted: while True.
EndBatch ==
    /\ rpc = "loop"
    /\ DOMAIN batch = {}
    /\ rpc' = "poll"
    /\ UNCHANGED <<issues, batch, last_batch, curi, local, changes, apply_results, hist, stop>>
    /\ UNCHANGED ivars

\* repo = self.clone_repo(temp_dir)
CloneRepo ==
    /\ rpc = "clone"
    /\ rpc' = "branch"
    /\ UNCHANGED <<issues, batch, last_batch, curi, local, changes, apply_results, hist, stop>>
    /\ UNCHANGED ivars

\* branch_name = self.create_branch(repo, issue.iid)
CreateBranch ==
    /\ rpc = "branch"
    /\ rpc' = "codebase"
    /\ UNCHANGED <<issues, batch, last_batch, curi, local, changes, apply_results, hist, stop>>
    /\ UNCHANGED ivars

\* changes = self.llm.process_codebase(temp_dir, issue.description): one
\* path with its new content (the index it runs on is the first part of
\* this module).
ProcessCodebase ==
    /\ rpc = "codebase"
    /\ \E p \in Paths : changes' = {p}
    /\ rpc' = "apply"
    /\ UNCHANGED <<issues, batch, last_batch, curi, local, apply_results, hist, stop>>
    /\ UNCHANGED ivars

\* apply_changes: one result per path, "error" for the paths whose write
\* raised; it raises nothing itself.
ApplyResults(paths, failing) ==
    [p \in paths |-> IF p \in failing THEN "error" ELSE "success"]

\* failed_changes
FailedChanges(res) == {p \in DOMAIN res : res[p] = "error"}

\* A process_issue that does not look at the results.
ApplyChangesUnchecked ==
    /\ rpc = "apply"
    /\ \E failing \in SUBSET changes :
        LET res == ApplyResults(changes, failing)
        IN  /\ apply_results' = res
            /\ hist' = [hist EXCEPT ![curi].applied =
                            IF FailedChanges(res) # {} THEN "error" ELSE "success"]
            /\ rpc' = "commit"
    /\ UNCHANGED <<issues, batch, last_batch, curi, local, changes, stop>>
    /\ UNCHANGED ivars

\* results = self.apply_changes(temp_dir, changes); if failed_changes: raise
ApplyChanges ==
    /\ rpc = "apply"
    /\ \E failing \in SUBSET changes :
        LET res == ApplyResults(changes, failing)
        IN  /\ apply_results' = res
            /\ hist' = [hist EXCEPT ![curi].applied =
                            IF FailedChanges(res) # {} THEN "error" ELSE "success"]
            /\ rpc' = IF FailedChanges(res) # {} THEN "mark_failed" ELSE "commit"
    /\ UNCHANGED <<issues, batch, last_batch, curi, local, changes, stop>>
    /\ UNCHANGED ivars

\* repo.index.add("*"); repo.index.commit(...)
GitCommit ==
    /\ rpc = "commit"
    /\ hist' = [hist EXCEPT ![curi].committed = TRUE]
    /\ rpc' = "push"
    /\ UNCHANGED <<issues, batch, last_batch, curi, local, changes, apply_results, stop>>
    /\ UNCHANGED ivars

\* repo.remote().push(branch_name)
GitPush ==
    /\ rpc = "push"
    /\ hist' = [hist EXCEPT ![curi].pushed = TRUE]
    /\ rpc' = "create_mr"
    /\ UNCHANGED <<issues, batch, last_batch, curi, local, changes, apply_results, stop>>
    /\ UNCHANGED ivars

\* mr = self.create_merge_request(branch_name, issue.iid)
CreateMergeRequest ==
    /\ rpc = "create_mr"
    /\ hist' = [hist EXCEPT ![curi].mr = TRUE]
    /\ rpc' = "note"
    /\ UNCHANGED <<issues, batch, last_batch, curi, local, changes, apply_results, stop>>
    /\ UNCHANGED ivars

\* self.issue_handler.update_issue_with_mr(issue, mr); process_issue returns.
UpdateIssueWithMr ==
    /\ rpc = "note"
    /\ hist' = [hist EXCEPT ![curi].mr_note = TRUE]
    /\ rpc' = "mark_processed"
    /\ UNCHANGED <<issues, batch, last_batch, curi, local, changes, apply_results, stop>>
    /\ UNCHANGED ivars

\* A call of process_issue other than apply_changes raises: except Exception.
StepRaises ==
    /\ rpc \in {"clone", "branch", "codebase", "commit", "push", "create_mr", "note"}
    /\ rpc' = "mark_failed"
    /\ UNCHANGED <<issues, batch, last_batch, curi, local, changes, apply_results, hist, stop>>
    /\ UNCHANGED ivars

\* mark_issue_processed: the label is appended to the object's list and saved.
MarkIssueProcessed ==
    /\ rpc = "mark_processed"
    /\ local' = local \cup {"auto-pr-complete"}
    /\ issues' = [issues EXCEPT ![curi].labels = local']
    /\ rpc' = "loop"
    /\ UNCHANGED <<batch, last_batch, curi, changes, apply_results, hist, stop>>
    /\ UNCHANGED ivars

\* mark_issue_processed: issue.save() raises after the append: except Exception.
MarkIssueProcessedFails ==
    /\ rpc = "mark_processed"
    /\ local' = local \cup {"auto-pr-complete"}
    /\ rpc' = "mark_failed"
    /\ UNCHANGED <<issues, batch, last_batch, curi, changes, apply_results, hist, stop>>
    /\ UNCHANGED ivars

\* mark_issue_failed: the label is appended, saved, and the note created.
MarkIssueFailed ==
    /\ rpc = "mark_failed"
    /\ local' = local \cup {"auto-pr-failed"}
    /\ issues' = [issues EXCEPT ![curi].labels = local']
    /\ hist' = [hist EXCEPT ![curi].fail_note = TRUE]
    /\ rpc' = "loop"
    /\ UNCHANGED <<batch, last_batch, curi, changes, apply_results, stop>>
    /\ UNCHANGED ivars

\* mark_issue_failed raises inside run's except clause, at issue.save() or,
\* the label saved, at notes.create: the exception leaves run.
MarkIssueFailedFails ==
    /\ rpc = "mark_failed"
    /\ local' = local \cup {"auto-pr-failed"}
    /\ \/ UNCHANGED issues
       \/ issues' = [issues EXCEPT ![curi].labels = local']
    /\ rpc' = "stopped"
    /\ stop' = "mark_issue_failed"
    /\ UNCHANGED <<batch, last_batch, curi, changes, apply_results, hist>>
    /\ UNCHANGED ivars

NextRun ==
    \/ LabelIssue
    \/ CloseIssue
    \/ Poll
    \/ PollFails
    \/ NextIssue
    \/ EndBatch
    \/ CloneRepo
    \/ CreateBranch
    \/ ProcessCodebase
    \/ ApplyChanges
    \/ GitCommit
    \/ GitPush
    \/ CreateMergeRequest
    \/ UpdateIssueWithMr
    \/ StepRaises
    \/ MarkIssueProcessed
    \/ MarkIssueProcessedFails
    \/ MarkIssueFailed
    \/ MarkIssueFailedFails

SpecRun == Init /\ [][NextRun]_vars

TypeOK ==
    /\ fs \in [Paths -> FileStates]
    /\ pc \in {"idle", "scan", "delete", "insert", "stale", "commit", "query"}
    /\ visited \subseteq Paths
    /\ processed_paths \subseteq visited
    /\ cur \in Paths \cup {0}
    /\ updated_files \in 0..NumPaths
    /\ embed_calls \in 0..NumPaths
    /\ last_pass \in {"none", "committed", "aborted"}

\* ----------------------------------------------------------------- claims
UniquePaths(rows) ==
    \A i, j \in 1..Len(rows) : rows[i].path = rows[j].path => i = j

Readable == {p \in Paths : fs[p].kind = "file"}
UnreadablePaths == {p \in Paths : fs[p].kind = "unreadable"}

\* The paths whose file state differs between the clone of the previous call
\* and this one.
ChangedPaths == {p \in Paths : fs[p] # prev.fs[p]}

\* The pass of this call has committed and the pass of the call before it
\* had committed too.
SecondPassDone == pc = "query" /\ prev.ok

\* C1: in every reachable state, also between the DELETE and the INSERT of an
\* upsert, the store holds at most one row per path, in the connection's view
\* and in what is committed.
C1_OneRowPerPath == UniquePaths(db) /\ UniquePaths(committed)

\* A row was deleted by an upsert and its replacement inserted.
C1_Witness ==
    /\ pc = "scan"
    /\ \E p \in removed \cap processed_paths : Cardinality(RowsOf(db, {p})) = 1

\* C2: after a pass that commits, every stored path was observed by the
\* pass's scan, and a scan that yields no file leaves the store empty.
C2_NoStaleRows ==
    pc = "query" =>
        /\ StoredPaths(db) \subseteq processed_paths
        /\ StoredPaths(committed) \subseteq processed_paths
        /\ (Pending(fs, {}) = {} => db = <<>> /\ committed = <<>>)

\* A committed pass has deleted the row of a path its scan did not yield.
C2_Witness == pc = "query" /\ removed \ processed_paths # {}

\* C3: after a pass that commits, the stored paths are the paths of the
\* scanned readable files and each row holds the content read in the pass.
C3_StoreMirrorsScan ==
    pc = "query" =>
        /\ StoredPaths(db) = Readable
        /\ processed_paths = Readable
        /\ \A i \in 1..Len(db) : db[i].content = fs[db[i].path].text
        /\ committed = db

\* A committed pass over a non-empty store that upserted a row, deleted a
\* stale one and left a store that differs from the one it found.
C3_Witness ==
    /\ pc = "query"
    /\ start_db # <<>>
    /\ updated_files >= 1
    /\ removed \ processed_paths # {}
    /\ db # start_db

\* C4: a pass that follows a committed pass over an unchanged file system
\* makes no embedding call, inserts and deletes no row, counts 0 updated
\* files and leaves every row as it was.
C4_Idempotent ==
    (SecondPassDone /\ prev.fs = fs) =>
        /\ embed_calls = 0
        /\ updated_files = 0
        /\ removed = {}
        /\ db = start_db
        /\ committed = start_db

\* A second pass over an unchanged, non-empty repository has committed.
C4_Witness == SecondPassDone /\ prev.fs = fs /\ Len(db) = NumPaths

\* C5: when exactly one indexed file's content changed between two committed
\* passes, the second pass makes one embedding call and replaces that file's
\* row; the other rows are the rows it found, unchanged.
C5_ChangeIsolation ==
    \A p \in Paths :
        (/\ SecondPassDone
         /\ ChangedPaths = {p}
         /\ prev.fs[p].kind = "file"
         /\ fs[p].kind = "file") =>
            /\ embed_calls = 1
            /\ updated_files = 1
            /\ removed = {p}
            /\ DeleteWhere(db, {p}) = DeleteWhere(start_db, {p})
            /\ \E i \in 1..Len(db) : db[i] = Row(p, fs[p].text)
            /\ Len(db) = Len(start_db)

\* One of several indexed files changed and the second pass has committed.
C5_Witness ==
    /\ SecondPassDone
    /\ Len(start_db) >= 2
    /\ \E p \in Paths :
        ChangedPaths = {p} /\ prev.fs[p].kind = "file" /\ fs[p].kind = "file"

\* C6: when exactly one indexed file was removed between two committed
\* passes, the second pass deletes that file's row and no other and makes no
\* embedding call.
C6_DeletionIsolation ==
    \A p \in Paths :
        (/\ SecondPassDone
         /\ ChangedPaths = {p}
         /\ prev.fs[p].kind = "file"
         /\ fs[p] = Absent) =>
            /\ p \in StoredPaths(start_db)
            /\ removed = {p}
            /\ embed_calls = 0
            /\ updated_files = 0
            /\ db = DeleteWhere(start_db, {p})

\* One of several indexed files was removed and the second pass has committed.
C6_Witness ==
    /\ SecondPassDone
    /\ db # <<>>
    /\ \E p \in Paths :
        ChangedPaths = {p} /\ prev.fs[p].kind = "file" /\ fs[p] = Absent

\* C7: after a pass that aborted before its commit, what the next query or
\* pass reads on the connection is the state the last completed pass
\* committed.
C7_AbortLeavesCommitted ==
    (pc = "idle" /\ last_pass = "aborted") => db = committed

\* C8: a failure of the embedding call for one file does not abort the pass.
C8_EmbeddingFailureTolerated ==
    ~(last_pass = "aborted" /\ error = "EmbeddingFailure")

\* C9: a file that cannot be read is skipped: handling it changes neither the
\* store nor the pass's bookkeeping nor raises, and after the pass it has no
\* row, the row it had being deleted like that of a file that is not there.
C9_UnreadableSkipped ==
    /\ [](pc = "query" =>
            /\ UnreadablePaths \cap StoredPaths(db) = {}
            /\ UnreadablePaths \cap processed_paths = {}
            /\ UnreadablePaths \cap removed = UnreadablePaths \cap StoredPaths(start_db)
            /\ StoredPaths(db) = Readable)
    /\ [][(/\ pc = "scan"
           /\ visited' # visited
           /\ \E p \in visited' \ visited : fs[p].kind = "unreadable") =>
              /\ pc' = "scan"
              /\ UNCHANGED <<db, committed, processed_paths, updated_files,
                             embed_calls, removed, last_pass, error>>]_vars

\* A committed pass met an unreadable file that had a row, and upserted
\* another file.
C9_Witness ==
    /\ pc = "query"
    /\ UnreadablePaths \cap StoredPaths(start_db) # {}
    /\ updated_files >= 1

\* C10: _get_relevant_files returns a file only if its path is one of the
\* candidates the similarity search returned.
C10_SelectionIntegrity ==
    result.status = "returned" =>
        \E i \in 1..Len(result.candidates) : result.candidates[i] = result.file

\* The latest call ran its similarity search: result holds what it saw, and
\* db is still the store it searched.
Searched == pc = "idle" /\ result.k > 0

\* C11: when the store is empty after reconciliation the search returns no
\* candidate and the call ends with the distinct "No relevant files found"
\* error, whatever the selector answers.
C11_EmptyStoreError ==
    (Searched /\ db = <<>>) =>
        /\ result.candidates = <<>>
        /\ error = "ValueError"

C13_TiesByPath ==
    Searched =>
        \A i, j \in 1..Len(result.candidates) :
            (i < j /\ result.distances[i] = result.distances[j]) =>
                result.candidates[i] < result.candidates[j]

\* C14: every text handed to the embedding model is at most EmbedCap
\* characters long: the prefix of the content of each row, and the text
\* embedded for a query.
C14_EmbedTextCapped ==
    /\ \A i \in 1..Len(db) :
        /\ TextLen(Slice(db[i].content, EmbedCap)) <= EmbedCap
        /\ db[i].embedding = Embed(Slice(db[i].content, EmbedCap))
    /\ (Searched => TextLen(result.embedded) <= EmbedCap)

\* The rows whose hash is the hash of their content and whose embedding is
\* that of their content cut to the cap.
ConsistentRows ==
    {[path |-> p, content |-> c, hash |-> GetFileHash(p, c),
      embedding |-> Embed(Slice(c, EmbedCap))] : p \in Paths, c \in Contents}

\* Contents of one hash have one embedding.
HashDeterminesEmbedding ==
    \A p \in Paths : \A c, d \in Contents :
        GetFileHash(p, c) = GetFileHash(p, d) =>
            Embed(Slice(c, EmbedCap)) = Embed(Slice(d, EmbedCap))

\* C16: in every state each row's hash is the hash of its content and its
\* embedding that of its content cut to the cap; so a row whose hash is the
\* hash of the file on disk carries the embedding of that file's content.
C16_RowConsistent ==
    /\ \A i \in 1..Len(db) : db[i] \in ConsistentRows
    /\ \A i \in 1..Len(committed) : committed[i] \in ConsistentRows
    /\ HashDeterminesEmbedding

\* A row of a content longer than the cap is found unchanged by a pass: its
\* hash is that of the file on disk.
C16_Witness ==
    /\ pc = "scan"
    /\ \E i \in 1..Len(db) :
        /\ db[i].path \in processed_paths \ removed
        /\ TextLen(db[i].content) > EmbedCap
        /\ db[i].hash = GetFileHash(db[i].path, fs[db[i].path].text)

Outcomes == {"auto-pr-complete", "auto-pr-failed"}

\* C15: get_auto_pr_issues returns only issues that are open, labelled
\* auto-pr and carry no outcome label, and run passes to process_issue only
\* issues that carry no outcome label on the server, poll after poll.
C15_ProcessedNotAgain ==
    [][/\ (rpc = "poll" /\ rpc' = "loop") =>
            \A i \in last_batch' :
                /\ issues[i].open
                /\ "auto-pr" \in issues[i].labels
                /\ issues[i].labels \cap Outcomes = {}
                /\ batch'[i] = issues[i].labels
       /\ (rpc = "loop" /\ rpc' = "clone") =>
            /\ issues[curi'].labels \cap Outcomes = {}
            /\ local' \cap Outcomes = {}]_vars

\* A poll returned nothing while an open auto-pr issue carries an outcome
\* label, and another one has been handled too.
C15_Witness ==
    /\ rpc = "loop"
    /\ last_batch = {}
    /\ \E i, j \in IssueIds :
        /\ i # j
        /\ issues[i].open
        /\ {"auto-pr", "auto-pr-complete"} \subseteq issues[i].labels
        /\ {"auto-pr", "auto-pr-failed"} \subseteq issues[j].labels

\* C17: a merge request exists only after apply_changes reported success for
\* every change and the commit was pushed; after a change with status error
\* there is no commit, push, merge request or merge request note for the
\* issue; apply_changes returns one result per path of changes.
C17_MergeRequestAfterPush ==
    /\ \A i \in IssueIds :
        LET h == hist[i]
        IN  /\ h.mr => (h.pushed /\ h.applied = "success")
            /\ h.pushed => (h.committed /\ h.applied = "success")
            /\ h.committed => h.applied = "success"
            /\ h.mr_note => h.mr
            /\ h.applied = "error" =>
                 ~h.committed /\ ~h.pushed /\ ~h.mr /\ ~h.mr_note
    /\ rpc \in {"commit", "push", "create_mr", "note", "mark_processed"} =>
         /\ DOMAIN apply_results = changes
         /\ \A p \in changes : apply_results[p] = "success"
    /\ (curi # 0 /\ hist[curi].applied # "none"
          /\ rpc \in {"mark_failed", "mark_processed"}) =>
         DOMAIN apply_results = changes

\* A change failed to apply and the issue was marked failed; for another
\* issue the merge request was created.
C17_Witness ==
    \E i, j \in IssueIds :
        /\ hist[i].applied = "error"
        /\ "auto-pr-failed" \in issues[i].labels
        /\ hist[j].mr

\* C18: no issue ever carries both outcome labels.
C18_OneOutcomeLabel ==
    \A i \in IssueIds : ~(Outcomes \subseteq issues[i].labels)

\* C19: an issue labelled auto-pr-failed has no merge request.
C19_FailedHasNoMergeRequest ==
    \A i \in IssueIds : "auto-pr-failed" \in issues[i].labels => ~hist[i].mr

\* C20: an exception raised while an issue is handled does not stop run.
C20_RunSurvivesIssueFailure ==
    ~(rpc = "stopped" /\ stop = "mark_issue_failed")

====
